---- MODULE Spec2Model ----
(***************************************************************************)
(* Model of vidcom2.go: a batch driver that walks the directory tree,      *)
(* launches ffmpeg on every .mp4/.mov file, compares the size of the       *)
(* produced file with the original and reports the aggregate savings.      *)
(*                                                                         *)
(* A string is a tuple of one-character strings; a path is a tuple of      *)
(* segments (the directories from the working directory down, then the     *)
(* file name).  The file system is a function from the paths of the        *)
(* regular files to their sizes, plus the set of directories.              *)
(***************************************************************************)
EXTENDS Integers, Sequences, FiniteSets, TLC

\* Largest file size (bytes) of an original or of a produced file.
MaxSize == 1

(***************************************************************************)
(* Strings                                                                 *)
(***************************************************************************)
Upper == <<"A","B","C","D","E","F","G","H","I","J","K","L","M",
           "N","O","P","Q","R","S","T","U","V","W","X","Y","Z">>

Lower == <<"a","b","c","d","e","f","g","h","i","j","k","l","m",
           "n","o","p","q","r","s","t","u","v","w","x","y","z">>

\* The characters in byte order (the order filepath.Walk sorts names by).
Alphabet == <<".", "/", "0","1","2","3","4","5","6","7","8","9">> \o Upper \o Lower

Ord(c) == CHOOSE k \in 1..Len(Alphabet) : Alphabet[k] = c

ToLowerChar(c) ==
    IF \E k \in 1..Len(Upper) : Upper[k] = c
    THEN Lower[CHOOSE k \in 1..Len(Upper) : Upper[k] = c]
    ELSE c

\* strings.ToLower
ToLower(s) == [k \in 1..Len(s) |-> ToLowerChar(s[k])]

\* strings.Contains
Contains(s, sub) ==
    \E k \in 0..(Len(s) - Len(sub)) :
        \A j \in 1..Len(sub) : s[k + j] = sub[j]

\* Byte-wise lexical order of two strings.
StrLess(a, b) ==
    \E k \in 1..(Len(a) + 1) :
        /\ k <= Len(b)
        /\ \A j \in 1..(k - 1) : a[j] = b[j]
        /\ \/ k = Len(a) + 1
           \/ (k <= Len(a) /\ Ord(a[k]) < Ord(b[k]))

S_Completed == <<"C","o","m","p","l","e","t","e","d">>
S_completed == <<"c","o","m","p","l","e","t","e","d">>
S_mp4 == <<".","m","p","4">>
S_mov == <<".","m","o","v">>

(***************************************************************************)
(* Paths                                                                   *)
(***************************************************************************)
Front(p) == SubSeq(p, 1, Len(p) - 1)
Last(p) == p[Len(p)]

RECURSIVE PathString(_)
\* The path as one string, its segments joined by "/".
PathString(p) ==
    IF p = <<>> THEN <<>>
    ELSE IF Len(p) = 1 THEN p[1]
    ELSE p[1] \o <<"/">> \o PathString(Tail(p))

\* filepath.Ext: the suffix of the last element from its final dot on,
\* empty when it has no dot.
Ext(p) ==
    LET name == Last(p)
        dots == {k \in 1..Len(name) : name[k] = "."}
    IN  IF dots = {} THEN <<>>
        ELSE LET d == CHOOSE k \in dots : \A j \in dots : j <= k
             IN  SubSeq(name, d, Len(name))

isVideoFile(filePath) ==
    LET fileExtension == ToLower(Ext(filePath))
    IN  fileExtension = S_mp4 \/ fileExtension = S_mov

\* Defined by the program and called nowhere in it.
isCompressedFile(filePath) ==
    Contains(ToLower(PathString(filePath)), S_completed)

\* filepath.Join(fileDir, "Completed")
completedDir(filePath) == Append(Front(filePath), S_Completed)

\* filepath.Join(completedDir, fileName)
compressedFilePath(filePath) == Append(completedDir(filePath), Last(filePath))

(***************************************************************************)
(* findVideoFiles: filepath.Walk visits a directory, then its entries in   *)
(* lexical order, descending into each subdirectory as it is met.          *)
(***************************************************************************)
Entries(d, fsys, ds) ==
    {Last(p) : p \in {q \in (DOMAIN fsys) \cup ds : q # <<>> /\ Front(q) = d}}

RECURSIVE SortNames(_)
SortNames(S) ==
    IF S = {} THEN <<>>
    ELSE LET m == CHOOSE x \in S : \A y \in S \ {x} : StrLess(x, y)
         IN  <<m>> \o SortNames(S \ {m})

RECURSIVE WalkDir(_, _, _), WalkEntries(_, _, _, _)
WalkDir(d, fsys, ds) ==
    LET r == WalkEntries(d, SortNames(Entries(d, fsys, ds)), fsys, ds)
    IN  [files |-> r.files, dirCount |-> r.dirCount + 1]

WalkEntries(d, names, fsys, ds) ==
    IF names = <<>> THEN [files |-> <<>>, dirCount |-> 0]
    ELSE LET path == Append(d, Head(names))
             h == IF path \in ds
                  THEN WalkDir(path, fsys, ds)
                  ELSE [files |-> IF isVideoFile(path) THEN <<path>> ELSE <<>>,
                        dirCount |-> 0]
             t == WalkEntries(d, Tail(names), fsys, ds)
         IN  [files |-> h.files \o t.files, dirCount |-> h.dirCount + t.dirCount]

findVideoFiles(fsys, ds) ==
    LET w == WalkDir(<<>>, fsys, ds)
    IN  [files |-> w.files, dirCount |-> w.dirCount - 1]

(***************************************************************************)
(* Floating point: the program divides float64 values, so a division by    *)
(* zero yields NaN (0/0) or an infinity, and never traps.  A finite        *)
(* percentage is kept truncated to an integer.                             *)
(***************************************************************************)
Num(n) == [kind |-> "num", val |-> n]
NaN == [kind |-> "NaN", val |-> 0]
PosInf == [kind |-> "+Inf", val |-> 0]
NegInf == [kind |-> "-Inf", val |-> 0]
NoPct == [kind |-> "none", val |-> 0]

\* (float64(n) / float64(d)) * 100
Percent(n, d) ==
    IF d = 0
    THEN IF n = 0 THEN NaN ELSE IF n > 0 THEN PosInf ELSE NegInf
    ELSE Num((n * 100) \div d)

(***************************************************************************)
(* State                                                                   *)
(***************************************************************************)
VARIABLES
    fs,                  \* regular files on disk: path -> size
    dirs,                \* directories on disk
    pc,                  \* where the main goroutine is
    videoFiles,          \* the list findVideoFiles returned
    dirCount,            \* the subdirectory count it returned
    i,                   \* index in videoFiles of the current / next job
    totalOriginalSize,
    totalCompressedSize,
    originalFileSize,    \* processVideo's local, while ffmpeg runs
    proc,                \* the ffmpeg subprocess of the current job
    sigChan,             \* number of signals buffered in sigChan (capacity 1)
    totalSpaceSaved,     \* the final summary, once pc = "done"
    percentageSaved,
    outcomes,            \* history: what each job of this run returned
    launched,            \* history: the subprocesses started in this run
    touched,             \* history: paths written or removed in this run
    run,                 \* 1 in the first run of the program, 2 in the second
    keptBefore           \* history: the inputs kept by the earlier runs

vars == <<fs, dirs, pc, videoFiles, dirCount, i, totalOriginalSize,
          totalCompressedSize, originalFileSize, proc, sigChan,
          totalSpaceSaved, percentageSaved, outcomes, launched, touched,
          run, keptBefore>>

Sizes == 0..MaxSize

S_a_mp4 == <<"a", ".", "m", "p", "4">>
S_b_MOV == <<"b", ".", "M", "O", "V">>
S_n_txt == <<"n", ".", "t", "x", "t">>
S_sub == <<"s", "u", "b">>

\* The video files a tree may hold when the program is first run: one in
\* the working directory and one in a subdirectory.  The trees that hold
\* files in a Completed directory are the trees the first run leaves to the
\* second.
TreeFiles ==
    { <<S_a_mp4>>, <<S_sub, S_b_MOV>> }

\* A file that is no video; every tree holds it.
OtherFile == <<S_n_txt>>

\* The directories above a path, the working directory (<<>>) included.
Ancestors(p) == {SubSeq(p, 1, k) : k \in 0..(Len(p) - 1)}

Init ==
    /\ \E S \in SUBSET TreeFiles :
           /\ fs \in [S \cup {OtherFile} -> Sizes]
           /\ fs[OtherFile] = 0
    /\ dirs = {<<>>} \cup UNION {Ancestors(p) : p \in DOMAIN fs}
    /\ pc = "start"
    /\ videoFiles = <<>>
    /\ dirCount = 0
    /\ i = 1
    /\ totalOriginalSize = 0
    /\ totalCompressedSize = 0
    /\ originalFileSize = 0
    /\ proc = "none"
    /\ sigChan = 0
    /\ totalSpaceSaved = 0
    /\ percentageSaved = Num(0)
    /\ outcomes = <<>>
    /\ launched = <<>>
    /\ touched = {}
    /\ run = 1
    /\ keptBefore = {}

Alive == pc \in {"start", "loop", "running", "wait"}

filePath == videoFiles[i]

(***************************************************************************)
(* main, up to the loop over the files                                     *)
(***************************************************************************)
\* os.OpenFile of the report fails: log.Fatalf ends the process.
OpenLogFail ==
    /\ pc = "start"
    /\ pc' = "fatal"
    /\ UNCHANGED <<fs, dirs, videoFiles, dirCount, i, totalOriginalSize,
                   totalCompressedSize, originalFileSize, proc, sigChan,
                   totalSpaceSaved, percentageSaved, outcomes, launched,
                   touched, run, keptBefore>>

Enumerate ==
    /\ pc = "start"
    /\ LET r == findVideoFiles(fs, dirs)
       IN  /\ videoFiles' = r.files
           /\ dirCount' = r.dirCount
    /\ i' = 1
    /\ pc' = "loop"
    /\ UNCHANGED <<fs, dirs, totalOriginalSize, totalCompressedSize,
                   originalFileSize, proc, sigChan, totalSpaceSaved,
                   percentageSaved, outcomes, launched, touched, run, keptBefore>>

(***************************************************************************)
(* processVideo, and the two additions processVideos makes on its return   *)
(***************************************************************************)
\* The values processVideo returns are added to the totals and the loop
\* moves to the next file.
Return(o, c, decision, orig, produced, pct) ==
    /\ totalOriginalSize' = totalOriginalSize + o
    /\ totalCompressedSize' = totalCompressedSize + c
    /\ outcomes' = Append(outcomes,
                     [file |-> filePath, decision |-> decision, retO |-> o,
                      retC |-> c, orig |-> orig, produced |-> produced,
                      pct |-> pct])
    /\ i' = i + 1
    /\ originalFileSize' = 0
    /\ proc' = "none"
    /\ pc' = "loop"

\* os.Mkdir(completedDir) when os.Stat says it does not exist.
Mkdir(ds, d) == IF d \in ds THEN ds ELSE ds \cup {d}

\* Faulty variant: the check of the output path never finds it.
AlreadyExists_never(f, fsys) == FALSE

\* os.Stat(compressedFilePath) returns no error.
AlreadyExists(f, fsys) == compressedFilePath(f) \in DOMAIN fsys

JobBegins ==
    /\ pc = "loop"
    /\ i <= Len(videoFiles)
    /\ dirs' = Mkdir(dirs, completedDir(filePath))

\* Faulty variant: the skip returns the size of the input twice.
JobSkip_counts ==
    /\ JobBegins
    /\ AlreadyExists(filePath, fs)
    /\ Return(fs[filePath], fs[filePath], "skip", -1, -1, NoPct)
    /\ UNCHANGED <<fs, videoFiles, dirCount, sigChan, totalSpaceSaved,
                   percentageSaved, launched, touched, run, keptBefore>>

\* The output path exists: skip.
JobSkip ==
    /\ JobBegins
    /\ AlreadyExists(filePath, fs)
    /\ Return(0, 0, "skip", -1, -1, NoPct)
    /\ UNCHANGED <<fs, videoFiles, dirCount, sigChan, totalSpaceSaved,
                   percentageSaved, launched, touched, run, keptBefore>>

\* os.Stat of the input fails (the walk lists it with Lstat; Stat follows
\* links and needs the target).
JobStatFail ==
    /\ JobBegins
    /\ ~AlreadyExists(filePath, fs)
    /\ Return(0, 0, "failed-stat", -1, -1, NoPct)
    /\ UNCHANGED <<fs, videoFiles, dirCount, sigChan, totalSpaceSaved,
                   percentageSaved, launched, touched, run, keptBefore>>

\* cmd.StderrPipe fails.
JobPipeFail ==
    /\ JobBegins
    /\ ~AlreadyExists(filePath, fs)
    /\ Return(fs[filePath], 0, "failed", fs[filePath], -1, NoPct)
    /\ UNCHANGED <<fs, videoFiles, dirCount, sigChan, totalSpaceSaved,
                   percentageSaved, launched, touched, run, keptBefore>>

\* cmd.Start fails.
JobStartFail ==
    /\ JobBegins
    /\ ~AlreadyExists(filePath, fs)
    /\ Return(fs[filePath], 0, "failed", fs[filePath], -1, NoPct)
    /\ UNCHANGED <<fs, videoFiles, dirCount, sigChan, totalSpaceSaved,
                   percentageSaved, launched, touched, run, keptBefore>>

\* ffmpeg is started on the input, with the output path as its target.
JobLaunch ==
    /\ JobBegins
    /\ ~AlreadyExists(filePath, fs)
    /\ originalFileSize' = fs[filePath]
    /\ proc' = "running"
    /\ launched' = Append(launched,
                     [src |-> filePath, dst |-> compressedFilePath(filePath)])
    /\ pc' = "running"
    /\ UNCHANGED <<fs, videoFiles, dirCount, i, totalOriginalSize,
                   totalCompressedSize, sigChan, totalSpaceSaved,
                   percentageSaved, outcomes, touched, run, keptBefore>>

(***************************************************************************)
(* The ffmpeg subprocess                                                   *)
(***************************************************************************)
\* ffmpeg writes its output file; p is the size the file has from then on.
FfmpegWrite(p) ==
    /\ pc \in {"running", "wait"}
    /\ proc = "running"
    /\ LET out == compressedFilePath(filePath)
       IN  /\ fs' = [q \in (DOMAIN fs) \cup {out} |-> IF q = out THEN p ELSE fs[q]]
           /\ touched' = touched \cup {out}
    /\ proc' = "wrote"
    /\ UNCHANGED <<dirs, pc, videoFiles, dirCount, i, totalOriginalSize,
                   totalCompressedSize, originalFileSize, sigChan,
                   totalSpaceSaved, percentageSaved, outcomes, launched,
                   run, keptBefore>>

\* ffmpeg exits, with status 0 or not.
FfmpegExit(code) ==
    /\ pc \in {"running", "wait"}
    /\ proc \in {"running", "wrote"}
    /\ proc' = IF code = 0 THEN "exit0" ELSE "exit1"
    /\ UNCHANGED <<fs, dirs, pc, videoFiles, dirCount, i, totalOriginalSize,
                   totalCompressedSize, originalFileSize, sigChan,
                   totalSpaceSaved, percentageSaved, outcomes, launched,
                   touched, run, keptBefore>>

(***************************************************************************)
(* processVideo, from the scanner loop on                                  *)
(***************************************************************************)
\* scanner.Scan returns false: at the end of ffmpeg's stderr, which ffmpeg
\* holds open until it exits, or on a read error (logged, nothing more).
ScanFinish(err) ==
    /\ pc = "running"
    /\ err \/ proc \in {"exit0", "exit1"}
    /\ pc' = "wait"
    /\ UNCHANGED <<fs, dirs, videoFiles, dirCount, i, totalOriginalSize,
                   totalCompressedSize, originalFileSize, proc, sigChan,
                   totalSpaceSaved, percentageSaved, outcomes, launched,
                   touched, run, keptBefore>>

\* Faulty variant: a failed ffmpeg ends the process (log.Fatalf).
WaitFail_fatal ==
    /\ pc = "wait"
    /\ proc = "exit1"
    /\ pc' = "fatal"
    /\ UNCHANGED <<fs, dirs, videoFiles, dirCount, i, totalOriginalSize,
                   totalCompressedSize, originalFileSize, proc, sigChan,
                   totalSpaceSaved, percentageSaved, outcomes, launched,
                   touched, run, keptBefore>>

\* cmd.Wait returns an error: ffmpeg exited with a status other than 0.
WaitFail ==
    /\ pc = "wait"
    /\ proc = "exit1"
    /\ Return(originalFileSize, 0, "failed", originalFileSize, -1, NoPct)
    /\ UNCHANGED <<fs, dirs, videoFiles, dirCount, sigChan, totalSpaceSaved,
                   percentageSaved, launched, touched, run, keptBefore>>

\* cmd.Wait returns nil and os.Stat of the output fails.
StatOutFail ==
    /\ pc = "wait"
    /\ proc = "exit0"
    /\ compressedFilePath(filePath) \notin DOMAIN fs
    /\ Return(originalFileSize, 0, "failed", originalFileSize, -1, NoPct)
    /\ UNCHANGED <<fs, dirs, videoFiles, dirCount, sigChan, totalSpaceSaved,
                   percentageSaved, launched, touched, run, keptBefore>>

\* Faulty variant: > in place of >=, an output of equal size is kept.
Decide_strict(o, p) ==
    IF p > o THEN "larger" ELSE "keep"

\* The comparison of the two sizes.
Decide(o, p) ==
    IF p >= o
    THEN IF p > o THEN "larger" ELSE "same"
    ELSE "keep"

\* The produced file is not smaller: os.Remove it (the error os.Remove
\* returns is dropped) and return the original size twice.
Discard(removeOk) ==
    /\ pc = "wait"
    /\ proc = "exit0"
    /\ compressedFilePath(filePath) \in DOMAIN fs
    /\ LET out == compressedFilePath(filePath)
           o == originalFileSize
           p == fs[out]
           d == Decide(o, p)
       IN  /\ d \in {"larger", "same"}
           /\ fs' = IF removeOk
                    THEN [q \in (DOMAIN fs) \ {out} |-> fs[q]]
                    ELSE fs
           /\ touched' = touched \cup {out}
           /\ Return(o, o, d, o, p,
                     IF d = "larger" THEN Percent(p - o, o) ELSE NoPct)
    /\ UNCHANGED <<dirs, videoFiles, dirCount, sigChan, totalSpaceSaved,
                   percentageSaved, launched, run, keptBefore>>

\* Faulty variant: os.Remove is called before the sizes are compared.
Keep_removes ==
    /\ pc = "wait"
    /\ proc = "exit0"
    /\ compressedFilePath(filePath) \in DOMAIN fs
    /\ LET out == compressedFilePath(filePath)
           o == originalFileSize
           p == fs[out]
       IN  /\ Decide(o, p) = "keep"
           /\ fs' = [q \in (DOMAIN fs) \ {out} |-> fs[q]]
           /\ touched' = touched \cup {out}
           /\ Return(o, p, "keep", o, p, Percent(o - p, o))
    /\ UNCHANGED <<dirs, videoFiles, dirCount, sigChan, totalSpaceSaved,
                   percentageSaved, launched, run, keptBefore>>

\* The produced file is smaller: it stays, and both sizes are returned.
Keep ==
    /\ pc = "wait"
    /\ proc = "exit0"
    /\ compressedFilePath(filePath) \in DOMAIN fs
    /\ LET out == compressedFilePath(filePath)
           o == originalFileSize
           p == fs[out]
       IN  /\ Decide(o, p) = "keep"
           /\ Return(o, p, "keep", o, p, Percent(o - p, o))
    /\ UNCHANGED <<fs, dirs, videoFiles, dirCount, sigChan, totalSpaceSaved,
                   percentageSaved, launched, touched, run, keptBefore>>

(***************************************************************************)
(* main, after the loop                                                    *)
(***************************************************************************)
Summary ==
    /\ pc = "loop"
    /\ i > Len(videoFiles)
    /\ totalSpaceSaved' = totalOriginalSize - totalCompressedSize
    /\ percentageSaved' = Percent(totalOriginalSize - totalCompressedSize,
                                  totalOriginalSize)
    /\ pc' = "done"
    /\ UNCHANGED <<fs, dirs, videoFiles, dirCount, i, totalOriginalSize,
                   totalCompressedSize, originalFileSize, proc, sigChan,
                   outcomes, launched, touched, run, keptBefore>>

(***************************************************************************)
(* The signal and the goroutine that waits for it                          *)
(***************************************************************************)
\* SIGINT or SIGTERM is delivered: signal.Notify's channel buffers it.
SignalArrives ==
    /\ Alive
    /\ sigChan = 0
    /\ sigChan' = 1
    /\ UNCHANGED <<fs, dirs, pc, videoFiles, dirCount, i, totalOriginalSize,
                   totalCompressedSize, originalFileSize, proc,
                   totalSpaceSaved, percentageSaved, outcomes, launched,
                   touched, run, keptBefore>>

\* Variant: the goroutine deletes the output of the running job before it
\* exits.
Handler_cleanup ==
    /\ Alive
    /\ sigChan = 1
    /\ sigChan' = 0
    /\ pc' = "exited"
    /\ fs' = IF pc \in {"running", "wait"}
             THEN [q \in (DOMAIN fs) \ {compressedFilePath(filePath)} |-> fs[q]]
             ELSE fs
    /\ UNCHANGED <<dirs, videoFiles, dirCount, i, totalOriginalSize,
                   totalCompressedSize, originalFileSize, proc,
                   totalSpaceSaved, percentageSaved, outcomes, launched,
                   touched, run, keptBefore>>

\* The goroutine receives from sigChan, prints its warning and calls
\* os.Exit(1).
Handler ==
    /\ Alive
    /\ sigChan = 1
    /\ sigChan' = 0
    /\ pc' = "exited"
    /\ UNCHANGED <<fs, dirs, videoFiles, dirCount, i, totalOriginalSize,
                   totalCompressedSize, originalFileSize, proc,
                   totalSpaceSaved, percentageSaved, outcomes, launched,
                   touched, run, keptBefore>>

(***************************************************************************)
(* The program is run again over the tree the finished run left            *)
(***************************************************************************)
Kept(os) == {os[k].file : k \in {j \in DOMAIN os : os[j].decision = "keep"}}

Rerun ==
    /\ pc = "done"
    /\ run = 1
    /\ run' = run + 1
    /\ keptBefore' = keptBefore \cup Kept(outcomes)
    /\ pc' = "start"
    /\ videoFiles' = <<>>
    /\ dirCount' = 0
    /\ i' = 1
    /\ totalOriginalSize' = 0
    /\ totalCompressedSize' = 0
    /\ totalSpaceSaved' = 0
    /\ percentageSaved' = Num(0)
    /\ outcomes' = <<>>
    /\ launched' = <<>>
    /\ touched' = {}
    /\ sigChan' = 0
    /\ UNCHANGED <<fs, dirs, originalFileSize, proc>>

MainStep ==
    \/ OpenLogFail
    \/ Enumerate
    \/ JobSkip
    \/ JobStatFail
    \/ JobPipeFail
    \/ JobStartFail
    \/ JobLaunch
    \/ \E err \in BOOLEAN : ScanFinish(err)
    \/ WaitFail
    \/ StatOutFail
    \/ \E removeOk \in BOOLEAN : Discard(removeOk)
    \/ Keep
    \/ Summary

Next ==
    \/ OpenLogFail
    \/ Enumerate
    \/ JobSkip
    \/ JobStatFail
    \/ JobPipeFail
    \/ JobStartFail
    \/ JobLaunch
    \/ \E p \in Sizes : FfmpegWrite(p)
    \/ \E code \in {0, 1} : FfmpegExit(code)
    \/ \E err \in BOOLEAN : ScanFinish(err)
    \/ WaitFail
    \/ StatOutFail
    \/ \E removeOk \in BOOLEAN : Discard(removeOk)
    \/ Keep
    \/ Summary
    \/ SignalArrives
    \/ Handler
    \/ Rerun

Spec == Init /\ [][Next]_vars

\* The main goroutine is never stopped for ever while it can step, and a
\* started ffmpeg exits.  Nothing makes a signal arrive.
FairSpec ==
    /\ Init
    /\ [][Next]_vars
    /\ WF_vars(MainStep)
    /\ WF_vars(\E code \in {0, 1} : FfmpegExit(code))

(***************************************************************************)
(* Claims                                                                  *)
(***************************************************************************)
Range(f) == {f[k] : k \in DOMAIN f}

Evaluated(r) == r.produced # -1

\* C1: a job whose output was measured keeps the output iff it is smaller
\* than the original, and discards it iff it is not (larger when it is
\* bigger, same when the sizes are equal); there is no third decision.
C1_DecisionBySize ==
    \A k \in DOMAIN outcomes :
        LET r == outcomes[k]
        IN  Evaluated(r) =>
              /\ r.decision \in {"keep", "larger", "same"}
              /\ r.decision = "keep" <=> r.produced < r.orig
              /\ r.decision = "larger" <=> r.produced > r.orig
              /\ r.decision = "same" <=> r.produced = r.orig

C1_Witness ==
    /\ \E k \in DOMAIN outcomes : outcomes[k].decision = "keep"
    /\ \E k \in DOMAIN outcomes : outcomes[k].decision \in {"larger", "same"}

RECURSIVE SumKept(_)
SumKept(os) ==
    IF os = <<>> THEN 0
    ELSE (IF Head(os).decision = "keep"
          THEN Head(os).orig - Head(os).produced ELSE 0) + SumKept(Tail(os))

\* C2: the savings of the final summary are the sum of (original - produced)
\* over the kept files; a failed file adds nothing to them.
C2_SavingsAreKeptSavings ==
    pc = "done" => totalSpaceSaved = SumKept(outcomes)

\* C3 as claimed: after a first run that kept some output, in the second
\* run every input the first run kept is skipped, no subprocess is launched
\* for it, and the run adds nothing to either total.
C3_SecondRunAddsNothing ==
    (run = 2 /\ pc = "done" /\ keptBefore # {}) =>
        /\ \A k \in DOMAIN outcomes :
               outcomes[k].file \in keptBefore => outcomes[k].decision = "skip"
        /\ \A k \in DOMAIN launched : launched[k].src \notin keptBefore
        /\ totalOriginalSize = 0
        /\ totalCompressedSize = 0

\* C3 as amended: in the second run every input the first run kept gets
\* the skip outcome, no subprocess is launched for it and it adds nothing
\* to either total.
C3_SecondRunSkipsKept ==
    run = 2 =>
        /\ \A k \in DOMAIN outcomes :
               outcomes[k].file \in keptBefore =>
                   /\ outcomes[k].decision = "skip"
                   /\ outcomes[k].retO = 0
                   /\ outcomes[k].retC = 0
        /\ \A k \in DOMAIN launched : launched[k].src \notin keptBefore
        /\ pc = "done" =>
               keptBefore \subseteq {outcomes[k].file : k \in DOMAIN outcomes}

C3_Witness ==
    /\ run = 2
    /\ pc = "done"
    /\ keptBefore # {}
    /\ totalOriginalSize > 0

\* C4: after a discard the produced file is not on disk.
C4_DiscardedOutputGone ==
    \A k \in DOMAIN outcomes :
        outcomes[k].decision \in {"larger", "same"} =>
            compressedFilePath(outcomes[k].file) \notin DOMAIN fs

\* C5: a job that starts while its output path exists is skipped: it
\* launches no subprocess, leaves the files on disk as they are and adds 0
\* to both totals.
C5_ExistingOutputSkips ==
    [][ ( /\ pc = "loop"
          /\ i <= Len(videoFiles)
          /\ compressedFilePath(filePath) \in DOMAIN fs
          /\ (i' # i \/ pc' = "running") )
        => ( /\ pc' = "loop"
             /\ i' = i + 1
             /\ outcomes'[Len(outcomes')].file = filePath
             /\ outcomes'[Len(outcomes')].decision = "skip"
             /\ launched' = launched
             /\ fs' = fs
             /\ totalOriginalSize' = totalOriginalSize
             /\ totalCompressedSize' = totalCompressedSize ) ]_vars

C5_Witness ==
    \E k \in DOMAIN outcomes :
        /\ outcomes[k].decision = "skip"
        /\ fs[outcomes[k].file] > 0
        /\ launched # <<>>

InCompletedDir(p) == \E j \in 1..(Len(p) - 1) : p[j] = S_Completed

\* C6: no file of a directory named Completed is given to ffmpeg as its
\* input.
C6_CompletedNeverTranscoded ==
    \A k \in DOMAIN launched : ~InCompletedDir(launched[k].src)

\* C7: a percentage is 0 when its denominator is 0, for one file and in the
\* final summary, which then reports 0 saved and 0%.
C7_ZeroDenominatorGivesZero ==
    /\ \A k \in DOMAIN outcomes :
           (outcomes[k].orig = 0 /\ outcomes[k].pct # NoPct) =>
               outcomes[k].pct = Num(0)
    /\ (pc = "done" /\ totalOriginalSize = 0) =>
           (totalSpaceSaved = 0 /\ percentageSaved = Num(0))

\* C8: whatever the jobs' outcomes, as long as no signal arrives the loop
\* runs one job per enumerated file, in order and one at a time, and then
\* the summary is emitted.
C8_BatchRunsToSummary ==
    /\ [](pc = "done" =>
            /\ Len(outcomes) = Len(videoFiles)
            /\ \A k \in DOMAIN outcomes : outcomes[k].file = videoFiles[k])
    /\ [](Len(outcomes) = (IF pc \in {"start", "fatal"} THEN 0 ELSE i - 1))
    /\ []((pc \in {"loop", "done"}) => proc = "none")
    /\ (pc = "loop") ~> (pc = "done" \/ pc = "exited" \/ sigChan = 1)

C8_Witness ==
    /\ pc = "done"
    /\ \E k \in DOMAIN outcomes : outcomes[k].decision = "failed"
    /\ \E k \in DOMAIN outcomes : outcomes[k].decision = "failed-stat"

\* C9 as claimed: from the moment the signal arrives no job is started, no
\* summary is emitted and the program deletes nothing.
C9_SignalStopsAtOnce ==
    [][ sigChan = 1 =>
            /\ ~(pc = "loop" /\ (i' # i \/ pc' = "running"))
            /\ pc' # "done"
            /\ DOMAIN fs \subseteq DOMAIN fs' ]_vars

\* C9 as amended: the process ends when the goroutine that waits for the
\* signal runs; that step changes nothing on disk and emits no summary,
\* and nothing happens after it.
C9_ExitLeavesDiskAsIs ==
    [][ /\ (pc = "exited" => UNCHANGED vars)
        /\ (pc' = "exited" /\ pc # "exited") =>
               /\ sigChan = 1
               /\ fs' = fs
               /\ dirs' = dirs
               /\ outcomes' = outcomes
               /\ launched' = launched ]_vars

C9_Witness ==
    /\ pc = "exited"
    /\ proc = "wrote"
    /\ compressedFilePath(filePath) \in DOMAIN fs

\* C10: no enumerated input is deleted or written: a job writes and deletes
\* its own output path only, and a job whose output path is an enumerated
\* input is skipped.
C10_InputsNeverTouched ==
    /\ \A k \in DOMAIN videoFiles :
           /\ videoFiles[k] \in DOMAIN fs
           /\ videoFiles[k] \notin touched
    /\ \A k \in DOMAIN launched :
           /\ launched[k].dst = compressedFilePath(launched[k].src)
           /\ launched[k].dst \notin Range(videoFiles)
    /\ touched \subseteq {launched[k].dst : k \in DOMAIN launched}
    /\ \A k \in DOMAIN outcomes :
           compressedFilePath(outcomes[k].file) \in Range(videoFiles) =>
               outcomes[k].decision = "skip"

C10_Witness ==
    /\ touched # {}
    /\ \E k \in DOMAIN outcomes :
           /\ compressedFilePath(outcomes[k].file) \in Range(videoFiles)
           /\ outcomes[k].decision = "skip"

====
